---- MODULE Spec2Model ----
(***************************************************************************)
(* Model of polars-ops/src/series/ops/arg_min_max.rs: the ArgAgg trait     *)
(* (arg_min / arg_max) for Series of numeric, boolean and text kinds.      *)
(*                                                                         *)
(* A ChunkedArray is a sequence of chunks; a chunk is a sequence of slots  *)
(* [v |-> stored value, valid |-> validity bit].  An Option<usize> result  *)
(* is a record [tag, idx].  usize values are represented by their signed   *)
(* residue modulo 2^64, so that usize::MAX (the wrapped value of 0 - 1) is *)
(* written -1.                                                             *)
(***************************************************************************)
EXTENDS Integers, Sequences, FiniteSets, TLC

VARIABLES
    kind,             \* physical dtype of the Series: "numeric", "boolean", "text"
    chunks,           \* ca.chunks(): sequence of chunks
    sorted,           \* ca.is_sorted_flag2(): "Ascending", "Descending", "Not"
    boff,             \* bit offset of a boolean chunk's values Bitmap in its bytes
    junk,             \* state of the storage bits outside the Bitmap's logical range
    overflow_checks,  \* build profile: TRUE = arithmetic overflow panics
    pc,               \* "idle", "fold", "done"
    op,               \* operation in progress: "none", "arg_min", "arg_max", ...
    acc,              \* fold accumulator (idx, val, offset) of arg_*_numeric
    k,                \* number of chunks the fold has consumed
    calls,            \* lengths of the slices handed to the argminmax primitive
    result            \* value returned by the operation

vars == <<kind, chunks, sorted, boff, junk, overflow_checks, pc, op, acc, k, calls, result>>

-----------------------------------------------------------------------------
(* Bounds of the model *)

MaxLen == 3        \* total number of elements of a Series
MaxChunks == 3     \* number of chunks of a Series
MaxVal == 1        \* numeric values are 0..MaxVal
MaxOffset == 1     \* bit offsets of a values Bitmap are 0..MaxOffset
MaxWords == 2      \* full 64-bit words of a scanned Bitmap
MaxRem == 2        \* remainder lengths near 0 and near the word size

\* text values: byte strings, compared lexicographically
Strings == {<<>>, <<1>>, <<2>>, <<1, 2>>}

-----------------------------------------------------------------------------
(* Option<usize> and usize arithmetic *)

None == [tag |-> "None", idx |-> 0]
Some(i) == [tag |-> "Some", idx |-> i]
Panic == [tag |-> "Panic", idx |-> 0]

\* Some(a - b) on usize: underflow panics with overflow checks, wraps without
SomeSub(a, b) ==
    IF a >= b THEN Some(a - b)
    ELSE IF overflow_checks THEN Panic
    ELSE Some(a - b)

SetMin(S) == CHOOSE x \in S : \A y \in S : x <= y

-----------------------------------------------------------------------------
(* ChunkedArray accessors *)

RECURSIVE SumLens(_, _)
\* total length of the first n chunks
SumLens(ca, n) == IF n = 0 THEN 0 ELSE SumLens(ca, n - 1) + Len(ca[n])

len(ca) == SumLens(ca, Len(ca))

is_empty(ca) == len(ca) = 0

RECURSIVE Flatten(_, _)
\* the elements of the first n chunks in global index order
Flatten(ca, n) == IF n = 0 THEN <<>> ELSE Flatten(ca, n - 1) \o ca[n]

into_iter(ca) == Flatten(ca, Len(ca))

arr_null_count(arr) == Cardinality({i \in DOMAIN arr : ~arr[i].valid})

null_count(ca) == Cardinality({i \in DOMAIN into_iter(ca) : ~into_iter(ca)[i].valid})

\* raw value slice of a primitive array: validity is not consulted
as_slice(arr) == [i \in DOMAIN arr |-> arr[i].v]

\* Ok(slice) only for a single chunk without nulls
cont_slice_ok(ca) == Len(ca) = 1 /\ arr_null_count(ca[1]) = 0

\* BooleanChunked::all: no element is Some(false)
all(ca) == \A i \in DOMAIN into_iter(ca) :
              ~(into_iter(ca)[i].valid /\ into_iter(ca)[i].v = FALSE)

\* Iterator::position over one predicate per use
position_true(it) ==
    LET S == {i \in DOMAIN it : it[i].valid /\ it[i].v = TRUE}
    IN  IF S = {} THEN None ELSE Some(SetMin(S) - 1)

position_false_or_null(it) ==
    LET S == {i \in DOMAIN it : ~it[i].valid \/ it[i].v = FALSE}
    IN  IF S = {} THEN None ELSE Some(SetMin(S) - 1)

-----------------------------------------------------------------------------
(* Bitmap: [offset, length, storage], storage = the set of physical bit      *)
(* positions of the byte slice that are set; logical bit i is physical bit  *)
(* offset + i.  A 64-bit word is the set of its set bit positions 0..63.    *)

size == 64

LittleEndian == TRUE

\* number of bytes * 8 of the slice returned by Bitmap::as_slice
SliceBits(offset, length) == ((offset + length + 7) \div 8) * 8

\* BooleanArray::values of a chunk stored at bit offset boff
values(arr) ==
    [offset  |-> boff,
     length  |-> Len(arr),
     storage |-> {boff + i - 1 : i \in {j \in DOMAIN arr : arr[j].v = TRUE}}
                 \cup (IF junk
                       THEN (0 .. boff - 1)
                            \cup (boff + Len(arr) .. SliceBits(boff, Len(arr)) - 1)
                       ELSE {})]

unset_bits(mask) ==
    mask.length - Cardinality({i \in 0 .. mask.length - 1 : (mask.offset + i) \in mask.storage})

trailing_zeros(chunk) == IF chunk = {} THEN size ELSE SetMin(chunk)

leading_zeros(chunk) ==
    IF chunk = {} THEN size ELSE SetMin({size - 1 - j : j \in chunk})

trailing_ones(chunk) == SetMin((0 .. size) \ chunk)

leading_ones(chunk) == SetMin({size - 1 - j : j \in (-1 .. size - 1) \ chunk})

get_leading_zeroes(chunk) ==
    IF LittleEndian THEN trailing_zeros(chunk) ELSE leading_zeros(chunk)

get_leading_ones(chunk) ==
    IF LittleEndian THEN trailing_ones(chunk) ELSE leading_ones(chunk)

\* BitChunksExact::<u64>::new(slice, length): whole words read from bit 0 of
\* the slice, then the remainder bits
BitChunksExact_new(slice, length) ==
    [words |-> [w \in 1 .. (length \div size) |->
                   {j \in 0 .. size - 1 : ((w - 1) * size + j) \in slice}],
     rem   |-> [i \in 1 .. (length % size) |->
                   ((length \div size) * size + i - 1) \in slice]]

\* Bitmap::chunks::<u64>(): the same words and remainder, realigned by offset
chunks_u64(mask) ==
    [words |-> [w \in 1 .. (mask.length \div size) |->
                   {j \in 0 .. size - 1 : (mask.offset + (w - 1) * size + j) \in mask.storage}],
     rem   |-> [i \in 1 .. (mask.length % size) |->
                   (mask.offset + (mask.length \div size) * size + i - 1) \in mask.storage]]

\* remainder_iter().position(|v| v == target): 0-based, -1 when absent
rem_position(rem, target) ==
    LET S == {i \in DOMAIN rem : rem[i] = target}
    IN  IF S = {} THEN -1 ELSE SetMin(S) - 1

RECURSIVE first_set_loop(_, _, _)
\* the for loop of first_set_bit_impl from word w with running total
first_set_loop(mask_chunks, w, total) ==
    IF w > Len(mask_chunks.words)
    THEN [returned |-> FALSE, total |-> total]
    ELSE LET pos == get_leading_zeroes(mask_chunks.words[w])
         IN  IF pos # size
             THEN [returned |-> TRUE, total |-> total + pos]
             ELSE first_set_loop(mask_chunks, w + 1, total + size)

\* first_set_bit_impl returning the remainder position without the running total
first_set_bit_impl_rem(mask_chunks) ==
    LET l == first_set_loop(mask_chunks, 1, 0)
        pos == rem_position(mask_chunks.rem, TRUE)
    IN  IF l.returned THEN l.total
        ELSE IF pos # -1 THEN pos
        ELSE 0

first_set_bit_impl(mask_chunks) ==
    LET l == first_set_loop(mask_chunks, 1, 0)
        pos == rem_position(mask_chunks.rem, TRUE)
    IN  IF l.returned THEN l.total
        ELSE IF pos # -1 THEN l.total + pos
        ELSE 0

first_set_bit(mask) ==
    IF unset_bits(mask) = 0 \/ unset_bits(mask) = mask.length THEN 0
    ELSE IF mask.offset = 0
         THEN first_set_bit_impl(BitChunksExact_new(mask.storage, mask.length))
         ELSE first_set_bit_impl(chunks_u64(mask))

RECURSIVE first_unset_loop(_, _, _)
\* the for loop of first_unset_bit_impl from word w with running total
first_unset_loop(mask_chunks, w, total) ==
    IF w > Len(mask_chunks.words)
    THEN [returned |-> FALSE, total |-> total]
    ELSE LET pos == get_leading_ones(mask_chunks.words[w])
         IN  IF pos # size
             THEN [returned |-> TRUE, total |-> total + pos]
             ELSE first_unset_loop(mask_chunks, w + 1, total + size)

first_unset_bit_impl(mask_chunks) ==
    LET l == first_unset_loop(mask_chunks, 1, 0)
        pos == rem_position(mask_chunks.rem, FALSE)
    IN  IF l.returned THEN l.total
        ELSE IF pos # -1 THEN l.total + pos
        ELSE 0

first_unset_bit(mask) ==
    IF unset_bits(mask) = 0 \/ unset_bits(mask) = mask.length THEN 0
    ELSE IF mask.offset = 0
         THEN first_unset_bit_impl(BitChunksExact_new(mask.storage, mask.length))
         ELSE first_unset_bit_impl(chunks_u64(mask))

-----------------------------------------------------------------------------
(* Boolean reducer *)

arg_max_bool(ca) ==
    IF is_empty(ca) THEN None
    ELSE IF null_count(ca) = len(ca) THEN Some(0)
    ELSE IF null_count(ca) = 0 /\ Len(ca) = 1 THEN Some(first_set_bit(values(ca[1])))
    ELSE position_true(into_iter(ca))

\* arg_min_bool without the ca.all() test
arg_min_bool_noall(ca) ==
    IF is_empty(ca) \/ null_count(ca) = len(ca) THEN Some(0)
    ELSE IF null_count(ca) = 0 /\ Len(ca) = 1 THEN Some(first_unset_bit(values(ca[1])))
    ELSE position_false_or_null(into_iter(ca))

arg_min_bool(ca) ==
    IF is_empty(ca) \/ null_count(ca) = len(ca) \/ all(ca) THEN Some(0)
    ELSE IF null_count(ca) = 0 /\ Len(ca) = 1 THEN Some(first_unset_bit(values(ca[1])))
    ELSE position_false_or_null(into_iter(ca))

-----------------------------------------------------------------------------
(* Ordered/text reducer *)

\* lexicographic order of byte strings: a < b
StrLt(a, b) ==
    \E i \in 1 .. Len(b) :
        /\ \A j \in 1 .. i - 1 : j <= Len(a) /\ a[j] = b[j]
        /\ (i > Len(a) \/ a[i] < b[i])

\* an Option order that puts None above every Some
OptLt_nulls_last(x, y) ==
    IF ~y.valid THEN x.valid
    ELSE x.valid /\ StrLt(x.v, y.v)

\* Option<&str> order: None < Some(_), Some by string order
OptLt(x, y) ==
    IF ~x.valid THEN y.valid
    ELSE y.valid /\ StrLt(x.v, y.v)

RECURSIVE reduce_min(_, _, _)
\* .enumerate().reduce(|acc, (idx, val)| if acc.1 > val {(idx, val)} else {acc})
\* from 1-based position i with the accumulator's 0-based index a
reduce_min(it, i, a) ==
    IF i > Len(it) THEN a
    ELSE reduce_min(it, i + 1, IF OptLt(it[i], it[a + 1]) THEN i - 1 ELSE a)

RECURSIVE reduce_max(_, _, _)
\* .enumerate().reduce(|acc, (idx, val)| if acc.1 < val {(idx, val)} else {acc})
reduce_max(it, i, a) ==
    IF i > Len(it) THEN a
    ELSE reduce_max(it, i + 1, IF OptLt(it[a + 1], it[i]) THEN i - 1 ELSE a)

arg_min_str(ca) ==
    IF sorted = "Ascending" THEN Some(0)
    ELSE IF sorted = "Descending" THEN SomeSub(len(ca), 1)
    ELSE IF Len(into_iter(ca)) = 0 THEN None
    ELSE Some(reduce_min(into_iter(ca), 2, 0))

\* arg_max_str that scans whatever the sortedness flag says
arg_max_str_scan(ca) ==
    IF Len(into_iter(ca)) = 0 THEN None
    ELSE Some(reduce_max(into_iter(ca), 2, 0))

arg_max_str(ca) ==
    IF sorted = "Ascending" THEN SomeSub(len(ca), 1)
    ELSE IF sorted = "Descending" THEN Some(0)
    ELSE IF Len(into_iter(ca)) = 0 THEN None
    ELSE Some(reduce_max(into_iter(ca), 2, 0))

-----------------------------------------------------------------------------
(* Numeric reducer *)

\* argminmax primitive on a non-empty slice: 0-based index of the first minimum
argmin(vals) ==
    SetMin({i \in DOMAIN vals : \A j \in DOMAIN vals : vals[i] <= vals[j]}) - 1

\* argminmax primitive on a non-empty slice: 0-based index of the first maximum
argmax(vals) ==
    SetMin({i \in DOMAIN vals : \A j \in DOMAIN vals : vals[i] >= vals[j]}) - 1

\* res: the returned Option; calls: lengths of the slices given to the primitive
arg_min_numeric_slice(vals, is_sorted) ==
    IF is_sorted = "Ascending" THEN [res |-> Some(0), calls |-> <<>>]
    ELSE IF is_sorted = "Descending" THEN [res |-> SomeSub(Len(vals), 1), calls |-> <<>>]
    ELSE [res |-> IF Len(vals) = 0 THEN Panic ELSE Some(argmin(vals)),
          calls |-> <<Len(vals)>>]

arg_max_numeric_slice(vals, is_sorted) ==
    IF is_sorted = "Ascending" THEN [res |-> SomeSub(Len(vals), 1), calls |-> <<>>]
    ELSE IF is_sorted = "Descending" THEN [res |-> Some(0), calls |-> <<>>]
    ELSE [res |-> IF Len(vals) = 0 THEN Panic ELSE Some(argmax(vals)),
          calls |-> <<Len(vals)>>]

\* the fold's initial accumulator (None, None, 0); val holds Some(value) in .idx
FoldInit == [idx |-> None, val |-> None, offset |-> 0]

\* fold closure of arg_min_numeric replacing the running best on <=
fold_min_step_le(a, chunk) ==
    IF Len(chunk) = 0 THEN [acc |-> a, calls |-> <<>>]
    ELSE LET chunk_min_idx == argmin(as_slice(chunk))
             chunk_min_val == chunk[chunk_min_idx + 1].v
             replaced == [idx    |-> Some(chunk_min_idx + a.offset),
                          val    |-> Some(chunk_min_val),
                          offset |-> a.offset + Len(chunk)]
         IN  [acc   |-> IF a.idx = None THEN replaced
                        ELSE IF chunk_min_val <= a.val.idx THEN replaced
                        ELSE [a EXCEPT !.offset = a.offset + Len(chunk)],
              calls |-> <<Len(chunk)>>]

\* one application of the fold closure of arg_min_numeric
fold_min_step(a, chunk) ==
    IF Len(chunk) = 0 THEN [acc |-> a, calls |-> <<>>]
    ELSE LET chunk_min_idx == argmin(as_slice(chunk))
             chunk_min_val == chunk[chunk_min_idx + 1].v
             replaced == [idx    |-> Some(chunk_min_idx + a.offset),
                          val    |-> Some(chunk_min_val),
                          offset |-> a.offset + Len(chunk)]
         IN  [acc   |-> IF a.idx = None THEN replaced
                        ELSE IF chunk_min_val < a.val.idx THEN replaced
                        ELSE [a EXCEPT !.offset = a.offset + Len(chunk)],
              calls |-> <<Len(chunk)>>]

\* fold closure of arg_max_numeric advancing the offset only on replacement
fold_max_step_offset(a, chunk) ==
    IF Len(chunk) = 0 THEN [acc |-> a, calls |-> <<>>]
    ELSE LET chunk_max_idx == argmax(as_slice(chunk))
             chunk_max_val == chunk[chunk_max_idx + 1].v
             replaced == [idx    |-> Some(chunk_max_idx + a.offset),
                          val    |-> Some(chunk_max_val),
                          offset |-> a.offset + Len(chunk)]
         IN  [acc   |-> IF a.idx = None THEN replaced
                        ELSE IF chunk_max_val > a.val.idx THEN replaced
                        ELSE a,
              calls |-> <<Len(chunk)>>]

\* fold closure of arg_max_numeric without the chunk.is_empty() skip
fold_max_step_noskip(a, chunk) ==
    IF Len(chunk) = 0 THEN [acc |-> a, calls |-> <<0>>]
    ELSE LET chunk_max_idx == argmax(as_slice(chunk))
             chunk_max_val == chunk[chunk_max_idx + 1].v
             replaced == [idx    |-> Some(chunk_max_idx + a.offset),
                          val    |-> Some(chunk_max_val),
                          offset |-> a.offset + Len(chunk)]
         IN  [acc   |-> IF a.idx = None THEN replaced
                        ELSE IF chunk_max_val > a.val.idx THEN replaced
                        ELSE [a EXCEPT !.offset = a.offset + Len(chunk)],
              calls |-> <<Len(chunk)>>]

\* one application of the fold closure of arg_max_numeric
fold_max_step(a, chunk) ==
    IF Len(chunk) = 0 THEN [acc |-> a, calls |-> <<>>]
    ELSE LET chunk_max_idx == argmax(as_slice(chunk))
             chunk_max_val == chunk[chunk_max_idx + 1].v
             replaced == [idx    |-> Some(chunk_max_idx + a.offset),
                          val    |-> Some(chunk_max_val),
                          offset |-> a.offset + Len(chunk)]
         IN  [acc   |-> IF a.idx = None THEN replaced
                        ELSE IF chunk_max_val > a.val.idx THEN replaced
                        ELSE [a EXCEPT !.offset = a.offset + Len(chunk)],
              calls |-> <<Len(chunk)>>]

-----------------------------------------------------------------------------
(* Inputs *)

Kinds == {"numeric", "boolean", "text"}

Flags == {"Ascending", "Descending", "Not"}

Slots(kd) ==
    IF kd = "numeric" THEN [v : 0 .. MaxVal, valid : BOOLEAN]
    ELSE IF kd = "boolean"
         THEN [v : BOOLEAN, valid : {TRUE}] \cup {[v |-> FALSE, valid |-> FALSE]}
         ELSE [v : Strings, valid : {TRUE}] \cup {[v |-> <<>>, valid |-> FALSE]}

RECURSIVE SumSeq(_, _)
SumSeq(ls, n) == IF n = 0 THEN 0 ELSE SumSeq(ls, n - 1) + ls[n]

\* the chunk length vectors of a Series of n elements
Splits(n) ==
    {ls \in UNION {[1 .. c -> 0 .. n] : c \in 1 .. MaxChunks} : SumSeq(ls, Len(ls)) = n}

Split(flat, ls) ==
    [c \in DOMAIN ls |-> SubSeq(flat, SumSeq(ls, c - 1) + 1, SumSeq(ls, c))]

Idle ==
    /\ pc = "idle"
    /\ op = "none"
    /\ acc = FoldInit
    /\ k = 0
    /\ calls = <<>>
    /\ result = None

Init ==
    /\ \E kd \in Kinds, n \in 0 .. MaxLen :
         /\ kind = kd
         /\ \E flat \in [1 .. n -> Slots(kd)], ls \in Splits(n) :
               chunks = Split(flat, ls)
         /\ boff \in (IF kd = "boolean" THEN 0 .. MaxOffset ELSE {0})
         /\ junk \in (IF kd = "boolean" THEN BOOLEAN ELSE {FALSE})
    /\ sorted \in Flags
    /\ overflow_checks \in BOOLEAN
    /\ Idle

\* remainder lengths just above a word boundary and just below the next
RemLens == (0 .. MaxRem) \cup ((size - MaxRem) .. (size - 1))

BitLens == {w * size + r : w \in 0 .. MaxWords, r \in RemLens}

\* n bits: fill before position p, the opposite at p, tail after it
Pattern(n, p, fill, tail) ==
    [i \in 1 .. n |->
        [v |-> IF i - 1 < p THEN fill ELSE IF i - 1 = p THEN ~fill ELSE tail,
         valid |-> TRUE]]

\* one null-free boolean chunk of up to MaxWords words and a remainder
InitBits ==
    /\ kind = "boolean"
    /\ \E n \in BitLens :
         \E p \in 0 .. n, fill \in BOOLEAN, tail \in BOOLEAN :
            chunks = <<Pattern(n, p, fill, tail)>>
    /\ boff \in 0 .. MaxOffset
    /\ junk \in BOOLEAN
    /\ sorted = "Not"
    /\ overflow_checks = TRUE
    /\ Idle

-----------------------------------------------------------------------------
(* Operations *)

Return(o, r, c) ==
    /\ op' = o
    /\ result' = r
    /\ calls' = c
    /\ pc' = "done"
    /\ UNCHANGED <<kind, chunks, sorted, boff, junk, overflow_checks, acc, k>>

\* Series::arg_min / arg_max, Utf8 arm
StrCall ==
    /\ pc = "idle"
    /\ kind = "text"
    /\ \/ Return("arg_min", arg_min_str(chunks), <<>>)
       \/ Return("arg_max", arg_max_str(chunks), <<>>)

\* Series::arg_min / arg_max, Boolean arm
BoolCall ==
    /\ pc = "idle"
    /\ kind = "boolean"
    /\ \/ Return("arg_min", arg_min_bool(chunks), <<>>)
       \/ Return("arg_max", arg_max_bool(chunks), <<>>)

\* the numeric arm up to the start of the fold
NumericArm(o) ==
    IF is_empty(chunks) THEN Return(o, None, <<>>)
    ELSE IF cont_slice_ok(chunks)
    THEN LET r == IF o = "arg_min"
                  THEN arg_min_numeric_slice(as_slice(chunks[1]), sorted)
                  ELSE arg_max_numeric_slice(as_slice(chunks[1]), sorted)
         IN  Return(o, r.res, r.calls)
    ELSE IF sorted = "Ascending"
    THEN Return(o, IF o = "arg_min" THEN Some(0) ELSE SomeSub(len(chunks), 1), <<>>)
    ELSE IF sorted = "Descending"
    THEN Return(o, IF o = "arg_min" THEN SomeSub(len(chunks), 1) ELSE Some(0), <<>>)
    ELSE /\ op' = o
         /\ pc' = "fold"
         /\ acc' = FoldInit
         /\ k' = 0
         /\ calls' = <<>>
         /\ UNCHANGED <<kind, chunks, sorted, boff, junk, overflow_checks, result>>

\* Series::arg_min / arg_max, numeric arm
NumericCall ==
    /\ pc = "idle"
    /\ kind = "numeric"
    /\ \/ NumericArm("arg_min")
       \/ NumericArm("arg_max")

\* the fold of arg_min_numeric / arg_max_numeric consumes the next chunk
FoldStep ==
    /\ pc = "fold"
    /\ k < Len(chunks)
    /\ LET s == IF op = "arg_min" THEN fold_min_step(acc, chunks[k + 1])
                ELSE fold_max_step(acc, chunks[k + 1])
       IN  /\ acc' = s.acc
           /\ calls' = calls \o s.calls
    /\ k' = k + 1
    /\ UNCHANGED <<kind, chunks, sorted, boff, junk, overflow_checks, pc, op, result>>

\* the fold returns the first component of its accumulator
FoldFinish ==
    /\ pc = "fold"
    /\ k = Len(chunks)
    /\ result' = acc.idx
    /\ pc' = "done"
    /\ UNCHANGED <<kind, chunks, sorted, boff, junk, overflow_checks, op, acc, k, calls>>

\* the Bitmap scanner applied to the values of a null-free single chunk
ScanSet ==
    /\ pc = "idle"
    /\ Return("first_set_bit", Some(first_set_bit(values(chunks[1]))), <<>>)

ScanUnset ==
    /\ pc = "idle"
    /\ Return("first_unset_bit", Some(first_unset_bit(values(chunks[1]))), <<>>)

Next == StrCall \/ BoolCall \/ NumericCall \/ FoldStep \/ FoldFinish

Spec == Init /\ [][Next]_vars

NextBits == ScanSet \/ ScanUnset

SpecBits == InitBits /\ [][NextBits]_vars

-----------------------------------------------------------------------------
(* Properties *)

Done == pc = "done"

IsArg == op \in {"arg_min", "arg_max"}

N == len(chunks)

Flat == into_iter(chunks)

\* the boundary index the sortedness shortcut prescribes
Boundary ==
    IF (sorted = "Ascending") = (op = "arg_min") THEN Some(0) ELSE Some(N - 1)

\* C1 (as stated): for every non-empty sequence of any kind, a sequence
\* flagged Ascending gives arg_min = 0 and arg_max = length-1, one flagged
\* Descending gives arg_min = length-1 and arg_max = 0, whatever is stored.
C1_ShortcutEveryKind ==
    (Done /\ IsArg /\ N > 0 /\ sorted # "Not") => result = Boundary

\* C1 (amended): for every non-empty numeric or text sequence, a sequence
\* flagged Ascending gives arg_min = 0 and arg_max = length-1, one flagged
\* Descending gives arg_min = length-1 and arg_max = 0, whatever is stored.
C1_ShortcutNumericText ==
    (Done /\ IsArg /\ N > 0 /\ sorted # "Not" /\ kind \in {"numeric", "text"})
        => result = Boundary

\* a text sequence flagged Ascending whose last element is not its largest
C1_Witness ==
    /\ Done /\ kind = "text" /\ op = "arg_max" /\ sorted = "Ascending"
    /\ N >= 2
    /\ OptLt(Flat[N], Flat[1])
    /\ result = Some(N - 1)

\* C2: for numeric and boolean sequences arg_min and arg_max return no
\* result if and only if the sequence has length 0.
C2_NoneIffEmpty ==
    (Done /\ IsArg /\ kind \in {"numeric", "boolean"}) => ((result = None) <=> (N = 0))

\* C3: an index returned by arg_min or arg_max for a sequence of length n
\* satisfies 0 <= idx < n.
C3_IndexInRange ==
    (Done /\ IsArg /\ result.tag = "Some") => (0 <= result.idx /\ result.idx < N)

\* what one contiguous slice holding the same values reports
SliceRef ==
    IF N = 0 THEN None
    ELSE IF op = "arg_min" THEN arg_min_numeric_slice(as_slice(Flat), "Not").res
    ELSE arg_max_numeric_slice(as_slice(Flat), "Not").res

\* C4: for a null-free numeric sequence with sortedness Unknown the result
\* under any chunking equals the result for one contiguous slice; during the
\* fold the running offset is the total length of the chunks consumed, and
\* the running best is local index i of some consumed chunk c reported as
\* (total length of the chunks before c) + i.
C4_ChunkingInvariant ==
    (kind = "numeric" /\ null_count(chunks) = 0 /\ sorted = "Not") =>
        /\ (Done => result = SliceRef)
        /\ (pc = "fold" => acc.offset = SumLens(chunks, k))
        /\ (pc = "fold" /\ acc.idx # None =>
               \E c \in 1 .. k :
                  /\ Len(chunks[c]) > 0
                  /\ LET i == IF op = "arg_min" THEN argmin(as_slice(chunks[c]))
                              ELSE argmax(as_slice(chunks[c]))
                     IN  /\ acc.idx = Some(SumLens(chunks, c - 1) + i)
                         /\ acc.val = Some(chunks[c][i + 1].v))

\* a fold over three chunks, one of them empty, whose answer lies past the first
C4_Witness ==
    /\ Done /\ kind = "numeric" /\ null_count(chunks) = 0 /\ sorted = "Not"
    /\ Len(chunks) = 3
    /\ \E c \in DOMAIN chunks : Len(chunks[c]) = 0
    /\ Len(calls) = 2
    /\ result.tag = "Some" /\ result.idx >= Len(chunks[1]) /\ Len(chunks[1]) > 0

\* a < b in the order the reducer of this kind compares by
ElemLt(a, b) == IF kind = "numeric" THEN a.v < b.v ELSE OptLt(a, b)

\* lowest index holding a value no other value is below (above)
FirstExtremum ==
    IF op = "arg_min"
    THEN SetMin({i \in DOMAIN Flat : \A j \in DOMAIN Flat : ~ElemLt(Flat[j], Flat[i])}) - 1
    ELSE SetMin({i \in DOMAIN Flat : \A j \in DOMAIN Flat : ~ElemLt(Flat[i], Flat[j])}) - 1

\* C5: with sortedness Unknown, arg_min and arg_max of a non-empty numeric
\* or text sequence return the lowest global index at which the extremal
\* value occurs.
C5_FirstOccurrence ==
    (Done /\ IsArg /\ sorted = "Not" /\ N > 0 /\ kind \in {"numeric", "text"})
        => result = Some(FirstExtremum)

\* the minimum of a folded numeric sequence occurs in two different chunks
C5_Witness ==
    /\ Done /\ kind = "numeric" /\ op = "arg_min" /\ sorted = "Not"
    /\ Len(chunks) >= 2
    /\ \E c \in DOMAIN chunks, d \in DOMAIN chunks :
          /\ c < d
          /\ \E i \in DOMAIN chunks[c], j \in DOMAIN chunks[d] :
                /\ chunks[c][i].v = chunks[d][j].v
                /\ \A e \in DOMAIN Flat : Flat[e].v >= chunks[c][i].v
    /\ result = Some(FirstExtremum)

\* naive left-to-right scan of a null-free chunk for the first target value
NaiveScan(arr, target) ==
    LET S == {i \in DOMAIN arr : arr[i].v = target}
    IN  IF S = {} THEN None ELSE Some(SetMin(S) - 1)

Target == op = "first_set_bit"

\* C6 (as stated): for every null-free single-chunk boolean sequence of any
\* length, offset and content, first_set_bit equals a naive scan for the
\* first true and first_unset_bit equals a naive scan for the first false.
C6_ScannerEqualsNaive ==
    Done => result = NaiveScan(chunks[1], Target)

\* C6 (amended): the scanner equals the naive scan whenever the naive scan
\* finds the target; when the target is absent (all-false for first_set_bit,
\* all-true for first_unset_bit, or no bits) the scanner returns 0.
C6_ScannerEqualsNaiveOrZero ==
    Done => result = (IF NaiveScan(chunks[1], Target) = None THEN Some(0)
                      ELSE NaiveScan(chunks[1], Target))

\* the first true lies in the remainder past two full words of a shifted bitmap
C6_Witness ==
    /\ Done /\ op = "first_set_bit"
    /\ boff > 0 /\ junk
    /\ Len(chunks[1]) % size # 0
    /\ result.idx > 2 * size
    /\ \E i \in DOMAIN chunks[1] : i > result.idx + 1 /\ ~chunks[1][i].v

HasNull == \E i \in DOMAIN Flat : ~Flat[i].valid

\* lowest index of a null
FirstNull == SetMin({i \in DOMAIN Flat : ~Flat[i].valid}) - 1

FirstSmallestStr ==
    SetMin({i \in DOMAIN Flat : \A j \in DOMAIN Flat : ~StrLt(Flat[j].v, Flat[i].v)}) - 1

FirstLargestStr ==
    SetMin({i \in DOMAIN Flat :
              /\ Flat[i].valid
              /\ \A j \in DOMAIN Flat : Flat[j].valid => ~StrLt(Flat[i].v, Flat[j].v)}) - 1

\* C7: for a text sequence with sortedness Unknown, arg_min is the lowest
\* null index if there is a null and else the lowest index of the smallest
\* string; arg_max is the lowest index of the largest non-null string and 0
\* when every element is null; no result only for the empty sequence.
C7_TextNullOrder ==
    (Done /\ kind = "text" /\ sorted = "Not") =>
        result = (IF N = 0 THEN None
                  ELSE IF op = "arg_min"
                       THEN (IF HasNull THEN Some(FirstNull) ELSE Some(FirstSmallestStr))
                       ELSE (IF \A i \in DOMAIN Flat : ~Flat[i].valid THEN Some(0)
                             ELSE Some(FirstLargestStr)))

\* nulls before and after the largest string
C7_Witness ==
    /\ Done /\ kind = "text" /\ sorted = "Not" /\ op = "arg_max"
    /\ N >= 3
    /\ ~Flat[1].valid /\ ~Flat[N].valid
    /\ result.tag = "Some" /\ result.idx > 0

C9_EmptyBeforeFlag ==
    (Done /\ IsArg /\ kind \in {"numeric", "text"} /\ N = 0 /\ sorted # "Not")
        => result = None

\* C10: every slice handed to the argmin/argmax primitive has length >= 1.
C10_PrimitiveNeverOnEmpty ==
    kind = "numeric" => \A i \in DOMAIN calls : calls[i] >= 1

\* the primitive ran on a sequence that mixes empty and non-empty chunks
C10_Witness ==
    /\ Done /\ kind = "numeric" /\ op = "arg_max"
    /\ Len(chunks[1]) = 0
    /\ Len(calls) >= 1
    /\ result.tag = "Some"

====
